---- MODULE Spec2Model ----
(***************************************************************************)
(* Model of qrzrtlogger.py: two UDP listener threads (N1MM+, WSJT-X) that  *)
(* put QSO records on a bounded queue, and the main program that starts    *)
(* them, consumes the queue, uploads each record and shuts down.           *)
(*                                                                         *)
(* A QSO record is modelled by its source and its arrival number at that   *)
(* source, so that loss, duplication and reordering are observable.        *)
(***************************************************************************)
EXTENDS Integers, Sequences, FiniteSets

\* Number of real QSO messages each monitor may deliver in one run.
MaxN1mmMsgs == 21
MaxWsjtxMsgs == 1

\* queue.Queue(maxsize=20)
maxsize == 20

Sources == {"wsjtx", "n1mm"}

\* Values qrz_logger.upload() may return as its first component.
UploadCounts == {-1, 0, 1, 2}

VARIABLES
    config,         \* set of source keys present in the YAML configuration
    dryrun,         \* -d option
    pcMain,         \* position of the main program
    n1mm_running,   \* run flag of the N1MM+ listener
    wsjtx_running,  \* run flag of the WSJT-X listener
    n1mmThread,     \* TRUE once the name n1mmThread is bound to a started thread
    wsjtxThread,    \* TRUE once the name wsjtxThread is bound to a started thread
    pcN1mm,         \* position of the N1MM+ listener thread
    pcWsjtx,        \* position of the WSJT-X listener thread
    qso_queue,      \* the dispatch queue
    qso,            \* the record last dequeued by the main loop
    console,        \* status line printed by the main program at its last step
    n1mm_count,     \* number of QSO messages n1mm_monitor has delivered
    wsjtx_count,    \* number of ADIF-logged messages wsjtx_monitor has delivered
    enqueued,       \* history: records put on the queue, in order
    dequeued,       \* history: records taken from the queue, in order
    uploaded,       \* history: records passed to qrz_logger.upload, in order
    abandoned,      \* history: records dequeued but never passed on
    drops,          \* history: number of 'Queue full' lines printed
    n1mm_late,      \* history: what the live N1MM+ listener did with its flag False
    wsjtx_late,     \* history: what the live WSJT-X listener did with its flag False
    called,         \* the function applied on its own, and whether it has returned
    adif_in,        \* text of the message a listener received
    adif_out,       \* text of the record the listener queues for it
    upload_result   \* (upload_count, status, info) returned by qrz_logger.upload

vars == <<config, dryrun, pcMain, n1mm_running, wsjtx_running, n1mmThread,
          wsjtxThread, pcN1mm, pcWsjtx, qso_queue, qso, console, n1mm_count, wsjtx_count, enqueued,
          dequeued, uploaded, abandoned, drops, n1mm_late, wsjtx_late,
          called, adif_in, adif_out, upload_result>>

\* State of a function applied on its own; the program as a whole, whose
\* records are modelled by source and number, leaves it alone.
functionVars == <<called, adif_in, adif_out, upload_result>>

\* State only the main program writes.
mainVars == <<config, dryrun, pcMain, n1mmThread, wsjtxThread, qso, console,
              dequeued, uploaded, abandoned, functionVars>>

\* State only the N1MM+ listener writes.
n1mmVars == <<pcN1mm, n1mm_count, n1mm_late>>

\* State only the WSJT-X listener writes.
wsjtxVars == <<pcWsjtx, wsjtx_count, wsjtx_late>>

----------------------------------------------------------------------------
\* queue.Queue operations

\* Queue.full()
full(q) == Len(q) >= maxsize

\* Queue.empty()
empty(q) == Len(q) = 0

\* Faulty variant: the queue built without maxsize never refuses a put.
put_raises_Full_Unbounded(q) == FALSE

\* Queue.put(item, block=False) raises queue.Full when there is no free slot.
put_raises_Full(q) == Len(q) >= maxsize

\* Faulty variant: the item goes to the head of the queue.
put_AtHead(q, item) == <<item>> \o q

\* Queue.put(item, block=False) on a queue with a free slot.
put(q, item) == Append(q, item)

\* Queue.get(block=False) raises queue.Empty when there is no item.
get_raises_Empty(q) == Len(q) = 0

\* Faulty variant: the newest item is returned, as a LifoQueue would.
get_item_Newest(q) == q[Len(q)]

\* Queue.get(block=False): the item returned.
get_item(q) == Head(q)

\* Faulty variant: the item is read but stays on the queue.
get_rest_Peek(q) == q

\* Queue.get(block=False): the queue left behind.
get_rest(q) == Tail(q)

----------------------------------------------------------------------------
\* Message text and format_record

\* A text is a sequence of characters, each a one-character string.  The
\* texts a monitor delivers here are made of at most MaxPieces pieces.
MaxPieces == 4

\* The pieces: blanks, line breaks, a letter, an angle bracket, the
\* end-of-header marker in two letter cases, and a marker cut short.
Pieces ==
    { <<" ">>, <<"\n">>, <<"\r">>, <<"\t">>, <<"a">>, <<"<">>,
      <<"<", "E", "O", "H", ">">>, <<"<", "e", "O", "h", ">">>,
      <<"<", "E", "O", "H">> }

RECURSIVE Texts(_)
Texts(n) ==
    IF n = 0 THEN {<<>>}
    ELSE LET shorter == Texts(n - 1)
         IN  shorter \cup {t \o p : t \in shorter, p \in Pieces}

\* Message texts a monitor may deliver.
AdifInputs == Texts(MaxPieces)

\* strutils.make_utf8(adif_in): text that is UTF-8 already, as every text
\* here is, comes back as it is.
make_utf8(text) == text

\* str.replace(old, new) for a one-character old.
replace(text, old, new) ==
    [i \in 1..Len(text) |-> IF text[i] = old THEN new ELSE text[i]]

\* adif_eoh_re = re.compile("\<EOH\>", re.IGNORECASE): the characters of
\* the pattern.
adif_eoh_re == <<"<", "E", "O", "H", ">">>

\* re.IGNORECASE compares letters by their lower-case form.
lower(c) ==
    CASE c = "E" -> "e"
      [] c = "O" -> "o"
      [] c = "H" -> "h"
      [] OTHER -> c

\* The pattern matches the text from position i on.
match_at(text, i) ==
    /\ i + Len(adif_eoh_re) - 1 <= Len(text)
    /\ \A k \in 1..Len(adif_eoh_re) :
          lower(text[i + k - 1]) = lower(adif_eoh_re[k])

\* adif_eoh_re.search(rec), scanning from position i: where the leftmost
\* match starts, or 0 for None.
RECURSIVE search(_, _)
search(text, i) ==
    IF i > Len(text) THEN 0
    ELSE IF match_at(text, i) THEN i
    ELSE search(text, i + 1)

\* Characters str.strip() removes.
Whitespace == {" ", "\t", "\n", "\r", "\f"}

RECURSIVE lstrip(_)
lstrip(text) ==
    IF text /= <<>> /\ Head(text) \in Whitespace THEN lstrip(Tail(text))
    ELSE text

RECURSIVE rstrip(_)
rstrip(text) ==
    IF text /= <<>> /\ text[Len(text)] \in Whitespace
    THEN rstrip(SubSeq(text, 1, Len(text) - 1))
    ELSE text

\* str.strip()
strip(text) == rstrip(lstrip(text))

\* Faulty variant: the text is stripped before the header is cut off.
format_record_StripFirst(text) ==
    LET rec == strip(replace(replace(make_utf8(text), "\n", " "), "\r", " "))
        m == search(rec, 1)
    IN  IF m /= 0 THEN SubSeq(rec, m + Len(adif_eoh_re), Len(rec)) ELSE rec

\* format_record(adif_in); m.end() is the position after the match.
format_record(text) ==
    LET rec == replace(replace(make_utf8(text), "\n", " "), "\r", " ")
        m == search(rec, 1)
        idx == m + Len(adif_eoh_re)
    IN  strip(IF m /= 0 THEN SubSeq(rec, idx, Len(rec)) ELSE rec)

\* What qrz_logger.upload() may return: (upload_count, status, info).
UploadInfos == {"", "Unable to add QSO"}

UploadResults ==
    [upload_count : UploadCounts, status : BOOLEAN, info : UploadInfos]

NoResult == [upload_count |-> 0, status |-> FALSE, info |-> ""]

----------------------------------------------------------------------------
\* Records and thread states

QsoRecord(src, n) == [src |-> src, seq |-> n]

\* n1mm_monitor.message where the listener reads it to queue it (the message
\* of this iteration's get_message): the latest QSO message delivered.
n1mm_message == QsoRecord("n1mm", n1mm_count)

\* wsjtx_monitor.Message[2] of this iteration's MSG_ADIF_LOGGED message.
wsjtx_message == QsoRecord("wsjtx", wsjtx_count)

NoQso == QsoRecord("none", 0)

LoopPcs == {"while", "get_message", "full", "put"}

\* Calls and puts a live listener has made while its run flag was False;
\* the count is dropped when the thread ends.
NoneLate == [gets |-> 0, puts |-> 0, skips |-> 0]

\* One more call of get_message; "two" stands for two or more.
LateGet(late, running) ==
    IF running \/ late.gets = 2 THEN late
    ELSE [late EXCEPT !.gets = late.gets + 1]

\* One more message that is not a QSO passed over; "two" stands for two or more.
LateSkip(late, running) ==
    IF running \/ late.skips = 2 THEN late
    ELSE [late EXCEPT !.skips = late.skips + 1]

\* One more record put on the queue; "two" stands for two or more.
LatePut(late, running) ==
    IF running \/ late.puts = 2 THEN late
    ELSE [late EXCEPT !.puts = late.puts + 1]

\* Thread.is_alive()
Alive(pc) == pc \in LoopPcs

\* The module-level state when the program starts.
Started ==
    /\ config \in SUBSET Sources
    /\ dryrun \in BOOLEAN
    /\ pcMain = "wsjtx_setup"
    /\ n1mm_running = FALSE
    /\ wsjtx_running = FALSE
    /\ n1mmThread = FALSE
    /\ wsjtxThread = FALSE
    /\ pcN1mm = "unstarted"
    /\ pcWsjtx = "unstarted"
    /\ qso_queue = <<>>
    /\ qso = NoQso
    /\ console = ""
    /\ n1mm_count = 0
    /\ wsjtx_count = 0
    /\ enqueued = <<>>
    /\ dequeued = <<>>
    /\ uploaded = <<>>
    /\ abandoned = {}
    /\ drops = 0
    /\ n1mm_late = NoneLate
    /\ wsjtx_late = NoneLate

Init ==
    /\ Started
    /\ called = "none"
    /\ adif_in = <<>>
    /\ adif_out = <<>>
    /\ upload_result = NoResult

----------------------------------------------------------------------------
\* Main program: listener setup

\* State no setup step touches.
setupFrame == <<config, dryrun, qso_queue, qso, n1mm_count, wsjtx_count,
                enqueued, dequeued, uploaded, abandoned, drops, n1mm_late,
                wsjtx_late, functionVars>>

\* 'wsjtx' absent from the configuration: nothing is started.
WsjtxSetupSkip ==
    /\ pcMain = "wsjtx_setup"
    /\ "wsjtx" \notin config
    /\ pcMain' = "n1mm_setup"
    /\ UNCHANGED <<setupFrame, n1mm_running, wsjtx_running, n1mmThread,
                   wsjtxThread, pcN1mm, pcWsjtx, console>>

\* wsjtx_monitor.bind() fails: sys.exit(1).
WsjtxBindError ==
    /\ pcMain = "wsjtx_setup"
    /\ "wsjtx" \in config
    /\ pcMain' = "sys_exit"
    /\ console' = "WSJT-X bind error"
    /\ UNCHANGED <<setupFrame, n1mm_running, wsjtx_running, n1mmThread,
                   wsjtxThread, pcN1mm, pcWsjtx>>

\* wsjtx_monitor.bind() succeeds: set the run flag and start the thread.
WsjtxStart ==
    /\ pcMain = "wsjtx_setup"
    /\ "wsjtx" \in config
    /\ wsjtx_running' = TRUE
    /\ wsjtxThread' = TRUE
    /\ pcWsjtx' = "while"
    /\ pcMain' = "n1mm_setup"
    /\ UNCHANGED <<setupFrame, n1mm_running, n1mmThread, pcN1mm, console>>

\* 'n1mm' absent from the configuration: nothing is started; the program
\* goes on to print 'Monitoring UDP ports' and to enter the loop.
N1mmSetupSkip ==
    /\ pcMain = "n1mm_setup"
    /\ "n1mm" \notin config
    /\ pcMain' = "empty"
    /\ console' = "Monitoring UDP ports for QSO messages."
    /\ UNCHANGED <<setupFrame, n1mm_running, wsjtx_running, n1mmThread,
                   wsjtxThread, pcN1mm, pcWsjtx>>

\* n1mm_monitor.bind() fails: sys.exit(1).
N1mmBindError ==
    /\ pcMain = "n1mm_setup"
    /\ "n1mm" \in config
    /\ pcMain' = "sys_exit"
    /\ console' = "N1MM+ bind error"
    /\ UNCHANGED <<setupFrame, n1mm_running, wsjtx_running, n1mmThread,
                   wsjtxThread, pcN1mm, pcWsjtx>>

\* n1mm_monitor.bind() succeeds: set the run flag and start the thread; the
\* program goes on to print 'Monitoring UDP ports' and to enter the loop.
N1mmStart ==
    /\ pcMain = "n1mm_setup"
    /\ "n1mm" \in config
    /\ n1mm_running' = TRUE
    /\ n1mmThread' = TRUE
    /\ pcN1mm' = "while"
    /\ pcMain' = "empty"
    /\ console' = "Monitoring UDP ports for QSO messages."
    /\ UNCHANGED <<setupFrame, wsjtx_running, wsjtxThread, pcWsjtx>>

----------------------------------------------------------------------------
\* N1MM+ listener thread

\* while n1mm_running:
N1mmWhile ==
    /\ pcN1mm = "while"
    /\ pcN1mm' = IF n1mm_running THEN "get_message" ELSE "exited"
    /\ n1mm_late' = IF n1mm_running THEN n1mm_late ELSE NoneLate
    /\ UNCHANGED <<mainVars, wsjtxVars, n1mm_running, wsjtx_running,
                   n1mm_count, qso_queue, enqueued, drops>>

\* Faulty variant: a monitor failure stops both listeners.
N1mmGetMessageFalse_StopsAll ==
    /\ pcN1mm = "get_message"
    /\ n1mm_running' = FALSE
    /\ wsjtx_running' = FALSE
    /\ n1mm_late' = LateGet(n1mm_late, n1mm_running)
    /\ pcN1mm' = "while"
    /\ UNCHANGED <<mainVars, wsjtxVars, n1mm_count, qso_queue, enqueued, drops>>

\* n1mm_monitor.get_message() returns False: the listener clears its flag.
N1mmGetMessageFalse ==
    /\ pcN1mm = "get_message"
    /\ n1mm_running' = FALSE
    /\ n1mm_late' = LateGet(n1mm_late, n1mm_running)
    /\ pcN1mm' = "while"
    /\ UNCHANGED <<mainVars, wsjtxVars, wsjtx_running, n1mm_count, qso_queue,
                   enqueued, drops>>

\* Faulty variant: the message that is not a QSO is queued like one.
N1mmGetMessageTimeout_Queued ==
    /\ pcN1mm = "get_message"
    /\ n1mm_late' = LateGet(n1mm_late, n1mm_running)
    /\ pcN1mm' = "full"
    /\ UNCHANGED <<mainVars, wsjtxVars, n1mm_running, wsjtx_running,
                   n1mm_count, qso_queue, enqueued, drops>>

\* Faulty variant: after a message that is not a QSO the listener calls
\* get_message again without testing its run flag.
N1mmGetMessageTimeout_NoFlagTest ==
    /\ pcN1mm = "get_message"
    /\ n1mm_late' = LateSkip(LateGet(n1mm_late, n1mm_running), n1mm_running)
    /\ pcN1mm' = "get_message"
    /\ UNCHANGED <<mainVars, wsjtxVars, n1mm_running, wsjtx_running,
                   n1mm_count, qso_queue, enqueued, drops>>

\* get_message() returns True with the message 'timeout': the test at
\* line 128 fails and nothing is queued.
N1mmGetMessageTimeout ==
    /\ pcN1mm = "get_message"
    /\ n1mm_late' = LateSkip(LateGet(n1mm_late, n1mm_running), n1mm_running)
    /\ pcN1mm' = "while"
    /\ UNCHANGED <<mainVars, wsjtxVars, n1mm_running, wsjtx_running,
                   n1mm_count, qso_queue, enqueued, drops>>

\* get_message() returns True with a QSO message.
N1mmGetMessageQso ==
    /\ pcN1mm = "get_message"
    /\ n1mm_count < MaxN1mmMsgs
    /\ n1mm_count' = n1mm_count + 1
    /\ n1mm_late' = LateGet(n1mm_late, n1mm_running)
    /\ pcN1mm' = "full"
    /\ UNCHANGED <<mainVars, wsjtxVars, n1mm_running, wsjtx_running,
                   qso_queue, enqueued, drops>>

\* Faulty variant: when the queue is full the oldest record is evicted to make room.
N1mmFull_Evict ==
    /\ pcN1mm = "full"
    /\ qso_queue' = IF full(qso_queue) THEN Tail(qso_queue) ELSE qso_queue
    /\ pcN1mm' = "put"
    /\ UNCHANGED <<mainVars, wsjtxVars, n1mm_running, wsjtx_running,
                   n1mm_count, n1mm_late, enqueued, drops>>

\* if qso_queue.full(): print 'Queue full, N1MM+ QSO not queued.'
N1mmFull ==
    /\ pcN1mm = "full"
    /\ IF full(qso_queue)
         THEN /\ drops' = drops + 1
              /\ pcN1mm' = "while"
         ELSE /\ drops' = drops
              /\ pcN1mm' = "put"
    /\ UNCHANGED <<mainVars, wsjtxVars, n1mm_running, wsjtx_running,
                   n1mm_count, n1mm_late, qso_queue, enqueued>>

\* Faulty variant: the listener uploads the record itself.
N1mmPut_Direct ==
    /\ pcN1mm = "put"
    /\ uploaded' = Append(uploaded, n1mm_message)
    /\ pcN1mm' = "while"
    /\ UNCHANGED <<functionVars, config, dryrun, pcMain, n1mmThread, wsjtxThread, qso,
                   console, dequeued, abandoned, wsjtxVars, n1mm_running,
                   wsjtx_running, n1mm_count, n1mm_late, qso_queue, enqueued,
                   drops>>

\* qso_queue.put(n1mm_monitor.message, block=False); queue.Full is not
\* caught anywhere in the thread, so it ends the thread.
N1mmPut ==
    /\ pcN1mm = "put"
    /\ IF put_raises_Full(qso_queue)
         THEN /\ pcN1mm' = "raised"
              /\ n1mm_late' = NoneLate
              /\ UNCHANGED <<qso_queue, enqueued>>
         ELSE /\ qso_queue' = put(qso_queue, n1mm_message)
              /\ enqueued' = Append(enqueued, n1mm_message)
              /\ n1mm_late' = LatePut(n1mm_late, n1mm_running)
              /\ pcN1mm' = "while"
    /\ UNCHANGED <<mainVars, wsjtxVars, n1mm_running, wsjtx_running,
                   n1mm_count, drops>>

n1mm_thread ==
    \/ N1mmWhile
    \/ N1mmGetMessageFalse
    \/ N1mmGetMessageTimeout
    \/ N1mmGetMessageQso
    \/ N1mmFull
    \/ N1mmPut

----------------------------------------------------------------------------
\* WSJT-X listener thread

\* while wsjtx_running:
WsjtxWhile ==
    /\ pcWsjtx = "while"
    /\ pcWsjtx' = IF wsjtx_running THEN "get_message" ELSE "exited"
    /\ wsjtx_late' = IF wsjtx_running THEN wsjtx_late ELSE NoneLate
    /\ UNCHANGED <<mainVars, n1mmVars, n1mm_running, wsjtx_running,
                   wsjtx_count, qso_queue, enqueued, drops>>

\* wsjtx_monitor.get_message() returns False: the listener clears its flag.
WsjtxGetMessageFalse ==
    /\ pcWsjtx = "get_message"
    /\ wsjtx_running' = FALSE
    /\ wsjtx_late' = LateGet(wsjtx_late, wsjtx_running)
    /\ pcWsjtx' = "while"
    /\ UNCHANGED <<mainVars, n1mmVars, n1mm_running, wsjtx_count, qso_queue,
                   enqueued, drops>>

\* get_message() returns True with a message of another type than
\* MSG_ADIF_LOGGED: the test at line 149 fails and nothing is queued.
WsjtxGetMessageOther ==
    /\ pcWsjtx = "get_message"
    /\ wsjtx_late' = LateSkip(LateGet(wsjtx_late, wsjtx_running), wsjtx_running)
    /\ pcWsjtx' = "while"
    /\ UNCHANGED <<mainVars, n1mmVars, n1mm_running, wsjtx_running,
                   wsjtx_count, qso_queue, enqueued, drops>>

\* get_message() returns True with a MSG_ADIF_LOGGED message.
WsjtxGetMessageAdif ==
    /\ pcWsjtx = "get_message"
    /\ wsjtx_count < MaxWsjtxMsgs
    /\ wsjtx_count' = wsjtx_count + 1
    /\ wsjtx_late' = LateGet(wsjtx_late, wsjtx_running)
    /\ pcWsjtx' = "full"
    /\ UNCHANGED <<mainVars, n1mmVars, n1mm_running, wsjtx_running,
                   qso_queue, enqueued, drops>>

\* if qso_queue.full(): print 'Queue full, WSJT-X QSO not queued.'
WsjtxFull ==
    /\ pcWsjtx = "full"
    /\ IF full(qso_queue)
         THEN /\ drops' = drops + 1
              /\ pcWsjtx' = "while"
         ELSE /\ drops' = drops
              /\ pcWsjtx' = "put"
    /\ UNCHANGED <<mainVars, n1mmVars, n1mm_running, wsjtx_running,
                   wsjtx_count, wsjtx_late, qso_queue, enqueued>>

\* qso_queue.put(qso, block=False); queue.Full is not caught anywhere in
\* the thread, so it ends the thread.
WsjtxPut ==
    /\ pcWsjtx = "put"
    /\ IF put_raises_Full(qso_queue)
         THEN /\ pcWsjtx' = "raised"
              /\ wsjtx_late' = NoneLate
              /\ UNCHANGED <<qso_queue, enqueued>>
         ELSE /\ qso_queue' = put(qso_queue, wsjtx_message)
              /\ enqueued' = Append(enqueued, wsjtx_message)
              /\ wsjtx_late' = LatePut(wsjtx_late, wsjtx_running)
              /\ pcWsjtx' = "while"
    /\ UNCHANGED <<mainVars, n1mmVars, n1mm_running, wsjtx_running,
                   wsjtx_count, drops>>

wsjtx_thread ==
    \/ WsjtxWhile
    \/ WsjtxGetMessageFalse
    \/ WsjtxGetMessageOther
    \/ WsjtxGetMessageAdif
    \/ WsjtxFull
    \/ WsjtxPut

----------------------------------------------------------------------------
\* Main program: the consumption loop

listenerVars == <<n1mm_running, wsjtx_running, n1mmVars, wsjtxVars, enqueued,
                  drops>>

\* Faulty variant: the loop sleeps until the queue is full.
MainEmpty_UntilFull ==
    /\ pcMain = "empty"
    /\ pcMain' = IF full(qso_queue) THEN "get" ELSE "empty"
    /\ console' = ""
    /\ UNCHANGED <<listenerVars, functionVars, config, dryrun, n1mmThread,
                   wsjtxThread, qso_queue, qso, dequeued, uploaded, abandoned>>

\* Faulty variant: the loop goes to the get without looking at the queue.
MainEmpty_NoCheck ==
    /\ pcMain = "empty"
    /\ pcMain' = "get"
    /\ console' = ""
    /\ UNCHANGED <<listenerVars, functionVars, config, dryrun, n1mmThread, wsjtxThread,
                   qso_queue, qso, dequeued, uploaded, abandoned>>

\* if qso_queue.empty(): time.sleep(5), and the loop comes back here;
\* else: go on to the get.  Nothing is printed.
MainEmpty ==
    /\ pcMain = "empty"
    /\ pcMain' = IF empty(qso_queue) THEN "empty" ELSE "get"
    /\ console' = ""
    /\ UNCHANGED <<listenerVars, functionVars, config, dryrun, n1mmThread, wsjtxThread,
                   qso_queue, qso, dequeued, uploaded, abandoned>>

\* Faulty variant: the dryrun option is not looked at.
MainGet_IgnoresDryrun ==
    /\ pcMain = "get"
    /\ ~get_raises_Empty(qso_queue)
    /\ qso' = get_item(qso_queue)
    /\ qso_queue' = get_rest(qso_queue)
    /\ dequeued' = Append(dequeued, get_item(qso_queue))
    /\ pcMain' = "upload"
    /\ console' = ""
    /\ UNCHANGED <<listenerVars, functionVars, config, dryrun, n1mmThread, wsjtxThread,
                   uploaded, abandoned>>

\* qso = qso_queue.get(block=False); in dryrun mode the record is printed.
\* queue.Empty is an Exception: the handler sends the program to shutdown.
MainGet ==
    /\ pcMain = "get"
    /\ IF get_raises_Empty(qso_queue)
         THEN /\ pcMain' = "clear_n1mm"
              /\ console' = "Exception"
              /\ UNCHANGED <<qso_queue, qso, dequeued>>
         ELSE /\ qso' = get_item(qso_queue)
              /\ qso_queue' = get_rest(qso_queue)
              /\ dequeued' = Append(dequeued, get_item(qso_queue))
              /\ pcMain' = IF dryrun THEN "empty" ELSE "upload"
              /\ console' = IF dryrun THEN "Dryrun mode, QSO not logged"
                                      ELSE ""
    /\ UNCHANGED <<listenerVars, functionVars, config, dryrun, n1mmThread, wsjtxThread,
                   uploaded, abandoned>>

\* Faulty variant: the report goes by the status flag.
UploadReport_ByStatus(upload_count, status, info) ==
    IF status THEN "QSO logged" ELSE "QSO NOT logged: " \o info

\* The status line printed for an upload result.
UploadReport(upload_count, status, info) ==
    IF upload_count = 1 THEN "QSO logged" ELSE "QSO NOT logged: " \o info

\* (upload_count, status, info) = qrz_logger.upload(qso), then the report.
MainUpload ==
    /\ pcMain = "upload"
    /\ \E r \in UploadResults :
          console' = UploadReport(r.upload_count, r.status, r.info)
    /\ uploaded' = Append(uploaded, qso)
    /\ pcMain' = "empty"
    /\ UNCHANGED <<listenerVars, functionVars, config, dryrun, n1mmThread, wsjtxThread,
                   qso_queue, qso, dequeued, abandoned>>

\* qrz_logger.upload(qso) raises: except Exception.
MainUploadRaises ==
    /\ pcMain = "upload"
    /\ uploaded' = Append(uploaded, qso)
    /\ console' = "Exception"
    /\ pcMain' = "clear_n1mm"
    /\ UNCHANGED <<listenerVars, functionVars, config, dryrun, n1mmThread, wsjtxThread,
                   qso_queue, qso, dequeued, abandoned>>

\* Ctrl-C anywhere inside the try block: except KeyboardInterrupt.  A record
\* already dequeued and not yet passed to upload is not passed on.
MainKeyboardInterrupt ==
    /\ pcMain \in {"empty", "get", "upload"}
    /\ abandoned' = IF pcMain = "upload" THEN abandoned \cup {qso}
                                          ELSE abandoned
    /\ console' = "Keyboard interrupt"
    /\ pcMain' = "clear_n1mm"
    /\ UNCHANGED <<listenerVars, functionVars, config, dryrun, n1mmThread, wsjtxThread,
                   qso_queue, qso, dequeued, uploaded>>

----------------------------------------------------------------------------
\* Main program: shutdown

\* n1mm_running = False
MainClearN1mm ==
    /\ pcMain = "clear_n1mm"
    /\ n1mm_running' = FALSE
    /\ pcMain' = "clear_wsjtx"
    /\ UNCHANGED <<functionVars, config, dryrun, wsjtx_running, n1mmThread, wsjtxThread,
                   n1mmVars, wsjtxVars, qso_queue, qso, console, enqueued,
                   dequeued, uploaded, abandoned, drops>>

\* wsjtx_running = False; print_time('Waiting for threads to exit.')
MainClearWsjtx ==
    /\ pcMain = "clear_wsjtx"
    /\ wsjtx_running' = FALSE
    /\ console' = "Waiting for threads to exit."
    /\ pcMain' = "join_n1mm"
    /\ UNCHANGED <<functionVars, config, dryrun, n1mm_running, n1mmThread, wsjtxThread,
                   n1mmVars, wsjtxVars, qso_queue, qso, enqueued,
                   dequeued, uploaded, abandoned, drops>>

\* n1mmThread.join() returns once the thread is no longer alive.
MainJoinN1mm ==
    /\ pcMain = "join_n1mm"
    /\ n1mmThread
    /\ ~Alive(pcN1mm)
    /\ pcMain' = "join_wsjtx"
    /\ UNCHANGED <<listenerVars, functionVars, config, dryrun, n1mmThread, wsjtxThread,
                   qso_queue, qso, console, dequeued, uploaded, abandoned>>

\* The name n1mmThread was never bound: NameError, uncaught.
MainJoinN1mmNameError ==
    /\ pcMain = "join_n1mm"
    /\ ~n1mmThread
    /\ pcMain' = "NameError"
    /\ UNCHANGED <<listenerVars, functionVars, config, dryrun, n1mmThread, wsjtxThread,
                   qso_queue, qso, console, dequeued, uploaded, abandoned>>

\* Faulty variant: the join does not wait for the thread.
MainJoinWsjtx_NoWait ==
    /\ pcMain = "join_wsjtx"
    /\ wsjtxThread
    /\ pcMain' = "exiting"
    /\ UNCHANGED <<listenerVars, functionVars, config, dryrun, n1mmThread, wsjtxThread,
                   qso_queue, qso, console, dequeued, uploaded, abandoned>>

\* wsjtxThread.join() returns once the thread is no longer alive.
MainJoinWsjtx ==
    /\ pcMain = "join_wsjtx"
    /\ wsjtxThread
    /\ ~Alive(pcWsjtx)
    /\ pcMain' = "exiting"
    /\ UNCHANGED <<listenerVars, functionVars, config, dryrun, n1mmThread, wsjtxThread,
                   qso_queue, qso, console, dequeued, uploaded, abandoned>>

\* The name wsjtxThread was never bound: NameError, uncaught.
MainJoinWsjtxNameError ==
    /\ pcMain = "join_wsjtx"
    /\ ~wsjtxThread
    /\ pcMain' = "NameError"
    /\ UNCHANGED <<listenerVars, functionVars, config, dryrun, n1mmThread, wsjtxThread,
                   qso_queue, qso, console, dequeued, uploaded, abandoned>>

\* print_time('... exiting.'): the end of the program.
MainExiting ==
    /\ pcMain = "exiting"
    /\ console' = "exiting"
    /\ pcMain' = "done"
    /\ UNCHANGED <<listenerVars, functionVars, config, dryrun, n1mmThread, wsjtxThread,
                   qso_queue, qso, dequeued, uploaded, abandoned>>

----------------------------------------------------------------------------
\* Specifications

Next ==
    \/ WsjtxSetupSkip
    \/ WsjtxBindError
    \/ WsjtxStart
    \/ N1mmSetupSkip
    \/ N1mmBindError
    \/ N1mmStart
    \/ MainEmpty
    \/ MainGet
    \/ MainUpload
    \/ MainUploadRaises
    \/ MainKeyboardInterrupt
    \/ MainClearN1mm
    \/ MainClearWsjtx
    \/ MainJoinN1mm
    \/ MainJoinN1mmNameError
    \/ MainJoinWsjtx
    \/ MainJoinWsjtxNameError
    \/ MainExiting
    \/ N1mmWhile
    \/ N1mmGetMessageFalse
    \/ N1mmGetMessageTimeout
    \/ N1mmGetMessageQso
    \/ N1mmFull
    \/ N1mmPut
    \/ WsjtxWhile
    \/ WsjtxGetMessageFalse
    \/ WsjtxGetMessageOther
    \/ WsjtxGetMessageAdif
    \/ WsjtxFull
    \/ WsjtxPut

Spec == Init /\ [][Next]_vars

\* The steps the main program takes by itself: everything but the operator's
\* Ctrl-C and an exception thrown by the uploader.
main_program ==
    \/ WsjtxSetupSkip
    \/ WsjtxBindError
    \/ WsjtxStart
    \/ N1mmSetupSkip
    \/ N1mmBindError
    \/ N1mmStart
    \/ MainEmpty
    \/ MainGet
    \/ MainUpload
    \/ MainClearN1mm
    \/ MainClearWsjtx
    \/ MainJoinN1mm
    \/ MainJoinN1mmNameError
    \/ MainJoinWsjtx
    \/ MainJoinWsjtxNameError
    \/ MainExiting

\* Every thread keeps being scheduled, and every get_message call returns
\* (each monitor is bound with a finite timeout).
FairSpec ==
    /\ Spec
    /\ WF_vars(main_program)
    /\ WF_vars(n1mm_thread)
    /\ WF_vars(wsjtx_thread)

\* A short run: the N1MM+ monitor delivers at most MaxShortRunMsgs QSO
\* messages.
MaxShortRunMsgs == 2

\* get_message() returns True with a QSO message, in the short run.
N1mmGetMessageQsoShortRun ==
    /\ n1mm_count < MaxShortRunMsgs
    /\ N1mmGetMessageQso

n1mm_thread_short_run ==
    \/ N1mmWhile
    \/ N1mmGetMessageFalse
    \/ N1mmGetMessageTimeout
    \/ N1mmGetMessageQsoShortRun
    \/ N1mmFull
    \/ N1mmPut

ShortRunNext ==
    \/ main_program
    \/ MainUploadRaises
    \/ MainKeyboardInterrupt
    \/ n1mm_thread_short_run
    \/ wsjtx_thread

\* The short run with every thread scheduled fairly.
FairShortRunSpec ==
    /\ Init
    /\ [][ShortRunNext]_vars
    /\ WF_vars(main_program)
    /\ WF_vars(n1mm_thread_short_run)
    /\ WF_vars(wsjtx_thread)

----------------------------------------------------------------------------
\* The record text and the upload report on their own: one message text is
\* turned into the record a listener queues, or one upload result is
\* reported by the main loop.

\* State the three steps below leave alone.
programVars == <<config, dryrun, pcMain, n1mm_running, wsjtx_running,
                 n1mmThread, wsjtxThread, pcN1mm, pcWsjtx, qso_queue, qso,
                 n1mm_count, wsjtx_count, enqueued, dequeued, uploaded,
                 abandoned, drops, n1mm_late, wsjtx_late>>

FunctionInit ==
    /\ Started
    /\ config = Sources
    /\ dryrun = FALSE
    /\ adif_out = <<>>
    /\ \/ /\ called \in {"format_record", "n1mm_message"}
          /\ adif_in \in AdifInputs
          /\ upload_result = NoResult
       \/ /\ called = "upload"
          /\ adif_in = <<>>
          /\ upload_result \in UploadResults

\* qso = format_record(wsjtx_monitor.Message[2]): the text the WSJT-X
\* listener queues.
WsjtxFormatRecord ==
    /\ called = "format_record"
    /\ adif_out' = format_record(adif_in)
    /\ called' = "format_record returned"
    /\ UNCHANGED <<programVars, console, adif_in, upload_result>>

\* qso_queue.put(n1mm_monitor.message, block=False): the N1MM+ listener
\* queues the message text as it is.
N1mmQueueMessage ==
    /\ called = "n1mm_message"
    /\ adif_out' = adif_in
    /\ called' = "n1mm_message queued"
    /\ UNCHANGED <<programVars, console, adif_in, upload_result>>

\* if (upload_count == 1): print_time('QSO logged')
\* else: print_time('QSO NOT logged: {}'.format(info))
MainReportUpload ==
    /\ called = "upload"
    /\ console' = UploadReport(upload_result.upload_count,
                               upload_result.status, upload_result.info)
    /\ called' = "upload reported"
    /\ UNCHANGED <<programVars, adif_in, adif_out, upload_result>>

FunctionNext ==
    \/ WsjtxFormatRecord
    \/ N1mmQueueMessage
    \/ MainReportUpload

FunctionSpec == FunctionInit /\ [][FunctionNext]_vars

----------------------------------------------------------------------------
\* Properties

\* The records of one source in a history, in the history's order.
OfSource(h, src) == SelectSeq(h, LAMBDA r : r.src = src)

\* A history holds the records of each source in their arrival order.
InArrivalOrder(h) ==
    \A src \in Sources :
        LET s == OfSource(h, src)
        IN  \A i \in 1..(Len(s) - 1) : s[i].seq < s[i + 1].seq

\* The set of records of a history.
Range(h) == {h[i] : i \in 1..Len(h)}

\* No record occurs twice in a history.
NoDuplicates(h) == Cardinality(Range(h)) = Len(h)

\* C1: whatever the interleaving, queue overflow never ends a listener: a
\* put on a full queue drops the record, logs 'Queue full' and leaves the
\* listener in its loop.  Stated as: no listener thread is ever ended by an
\* exception, and every QSO a listener has finished handling was either
\* queued or logged as dropped.
C1_OverflowNeverEscalates ==
    /\ pcN1mm /= "raised"
    /\ pcWsjtx /= "raised"
    /\ (pcN1mm \notin {"full", "put"} /\ pcWsjtx \notin {"full", "put"})
          => n1mm_count + wsjtx_count = Len(enqueued) + drops

\* C2: the dispatch queue never holds more than 20 records.
C2_QueueBound == Len(qso_queue) <= maxsize

\* C2 witness: the queue is at capacity and a put has been refused.
C2_Witness ==
    /\ Len(qso_queue) = maxsize
    /\ (pcN1mm = "raised" \/ pcWsjtx = "raised")

\* C3: a listener that handles a record while the queue holds 20 records
\* does not wait and leaves the queue as it is (same size, same order), and
\* the records come off the queue in the order they were put on it: what
\* was dequeued, followed by what is queued, is the arrival history.
C3_FullQueueUntouched ==
    /\ [][(Len(qso_queue) = maxsize
             /\ (N1mmFull \/ N1mmPut \/ WsjtxFull \/ WsjtxPut))
            => (qso_queue' = qso_queue /\ enqueued' = enqueued)]_vars
    /\ [][(Len(qso_queue) = maxsize /\ (N1mmFull \/ N1mmPut))
            => pcN1mm' \in {"while", "raised"}]_vars
    /\ [][(Len(qso_queue) = maxsize /\ (WsjtxFull \/ WsjtxPut))
            => pcWsjtx' \in {"while", "raised"}]_vars
    /\ [](enqueued = dequeued \o qso_queue)

\* C3 witness: a record was dropped at a full queue and afterwards the 20
\* queued records have all been dequeued.
C3_Witness ==
    /\ drops > 0
    /\ Len(dequeued) = maxsize
    /\ qso_queue = <<>>

\* C4: the records of one source are dequeued, and handed to the uploader,
\* in the order the monitor delivered them.
C4_SourceOrder ==
    /\ InArrivalOrder(dequeued)
    /\ InArrivalOrder(uploaded)

\* C4 witness: records of both sources were uploaded, two of them from the
\* same source with one of the other source in between.
C4_Witness ==
    \E i, j, k \in 1..Len(uploaded) :
        /\ i < j /\ j < k
        /\ uploaded[i].src = "n1mm"
        /\ uploaded[j].src = "wsjtx"
        /\ uploaded[k].src = "n1mm"

\* C5: a queued record is handed to the uploader at most once: there are
\* never more upload calls than successful enqueues, no record is uploaded
\* twice, and an uploaded record (whatever the result) is never on the
\* queue again.
C5_UploadedAtMostOnce ==
    /\ Len(uploaded) <= Len(enqueued)
    /\ NoDuplicates(uploaded)
    /\ Range(uploaded) \cap Range(qso_queue) = {}

\* C5 witness: an upload has just failed, the main loop is back at the top
\* of its loop and further records are waiting.
C5_Witness ==
    /\ console = "QSO NOT logged: Unable to add QSO"
    /\ pcMain = "empty"
    /\ uploaded /= <<>>
    /\ qso_queue /= <<>>

\* C6 (as claimed): once shutdown has completed, no enqueued record is left
\* unconsumed in the queue.
C6_NothingLeftInQueue == pcMain = "done" => qso_queue = <<>>

\* C6 (amended): once shutdown has completed, every enqueued record is
\* accounted for exactly once: it was dequeued (and then uploaded, or, in
\* dryrun mode, printed, or it was the one record in the main loop's hands
\* when the interrupt came) or it is still on the queue; nothing was
\* uploaded twice.
C6_AccountedAtExit ==
    pcMain = "done" =>
        /\ enqueued = dequeued \o qso_queue
        /\ NoDuplicates(enqueued)
        /\ NoDuplicates(uploaded)
        /\ Cardinality(abandoned) <= 1
        /\ IF dryrun THEN uploaded = <<>> /\ abandoned = {}
                     ELSE Range(dequeued) = Range(uploaded) \cup abandoned

\* C6 witness: shutdown has completed with records uploaded and records
\* still on the queue.
C6_Witness ==
    /\ pcMain = "done"
    /\ uploaded /= <<>>
    /\ qso_queue /= <<>>

\* C7: the main program has cleared both run flags before it is at a join,
\* it reports 'exiting' only when neither listener thread is alive, and
\* from then on nothing is put on the queue.
C7_ClearJoinExit ==
    /\ [](pcMain \in {"join_n1mm", "join_wsjtx", "exiting", "done", "NameError"}
            => (~n1mm_running /\ ~wsjtx_running))
    /\ [](pcMain \in {"exiting", "done"}
            => (~Alive(pcN1mm) /\ ~Alive(pcWsjtx)))
    /\ [][(pcMain \in {"exiting", "done"})
            => (qso_queue' = qso_queue /\ enqueued' = enqueued)]_vars

\* C7 witness: with both listeners started and records queued, the program
\* has been through an exception in the loop, the joins and the exit report.
C7_Witness ==
    /\ pcMain = "done"
    /\ config = Sources
    /\ enqueued /= <<>>
    /\ pcN1mm = "exited"
    /\ pcWsjtx = "exited"

\* C9: a listener whose key is absent is never started, and shutdown always
\* runs to its end without an error.
C9_ShutdownWithoutError ==
    /\ ("n1mm" \notin config => pcN1mm = "unstarted")
    /\ ("wsjtx" \notin config => pcWsjtx = "unstarted")
    /\ pcMain /= "NameError"

\* C10: when a bind fails, the program aborts with no listener thread
\* started and no run flag set.
C10_AbortBeforeAnyThread ==
    pcMain = "sys_exit" =>
        /\ pcN1mm = "unstarted"
        /\ pcWsjtx = "unstarted"
        /\ ~n1mm_running
        /\ ~wsjtx_running

\* C8: once the main program has begun to shut down, the listeners see
\* their cleared flags and end, each join returns and the shutdown runs to
\* its end.
C8_ShutdownCompletes == (pcMain = "clear_n1mm") ~> (pcMain = "done")

\* C11: when get_message returns False the listener clears its own flag
\* and nothing else: the other flag, the queue and the positions of the
\* main program and of the other listener are as before; the listener then
\* leaves its loop at the next check.
C11_MonitorFailureIsLocal ==
    /\ [][(pcN1mm = "get_message" /\ pcN1mm' = "while"
              /\ n1mm_running /\ ~n1mm_running')
            => UNCHANGED <<wsjtx_running, qso_queue, mainVars, wsjtxVars>>]_vars
    /\ [][(pcWsjtx = "get_message" /\ pcWsjtx' = "while"
              /\ wsjtx_running /\ ~wsjtx_running')
            => UNCHANGED <<n1mm_running, qso_queue, mainVars, n1mmVars>>]_vars
    /\ [][(pcN1mm = "while" /\ ~n1mm_running /\ pcN1mm' /= pcN1mm)
            => pcN1mm' = "exited"]_vars
    /\ [][(pcWsjtx = "while" /\ ~wsjtx_running /\ pcWsjtx' /= pcWsjtx)
            => pcWsjtx' = "exited"]_vars

\* C11 witness: the N1MM+ listener has ended on its own while the main loop
\* goes on uploading and the WSJT-X listener is still running.
C11_Witness ==
    /\ pcN1mm = "exited"
    /\ pcMain = "upload"
    /\ wsjtx_running
    /\ pcWsjtx = "put"

\* C12: in dryrun mode the uploader is never called; every record taken
\* from the queue is removed from it and printed with the dryrun line.
C12_DryrunNeverUploads ==
    /\ [](dryrun => (uploaded = <<>> /\ pcMain /= "upload"))
    /\ [][(dryrun /\ dequeued' /= dequeued)
            => /\ console' = "Dryrun mode, QSO not logged"
               /\ qso' = Head(qso_queue)
               /\ qso_queue' = Tail(qso_queue)]_vars

\* C12 witness: in dryrun mode two records have been taken and printed.
C12_Witness ==
    /\ dryrun
    /\ Len(dequeued) >= 2
    /\ console = "Dryrun mode, QSO not logged"

\* C14: only the main loop calls the uploader, one call at a time: a step
\* that passes a record to the uploader is a step of the main program at
\* its upload call, it passes exactly one record, and no listener moves.
C14_OnlyMainUploads ==
    [][(uploaded' /= uploaded)
         => /\ pcMain = "upload"
            /\ pcMain' /= "upload"
            /\ Len(uploaded') = Len(uploaded) + 1
            /\ UNCHANGED <<n1mmVars, wsjtxVars>>]_vars

\* C14 witness: records have been uploaded and the main loop is at its next
\* upload call while both listeners are about to put a record.
C14_Witness ==
    /\ uploaded /= <<>>
    /\ pcMain = "upload"
    /\ pcN1mm = "put"
    /\ pcWsjtx = "put"

\* C19: when the main loop is at its get the queue is not empty, and the
\* get never sends the program to shutdown.
C19_GetNeverEmpty ==
    /\ [](pcMain = "get" => Len(qso_queue) > 0)
    /\ [][(pcMain = "get" /\ dequeued' = dequeued /\ pcMain' /= pcMain)
            => console' = "Keyboard interrupt"]_vars

\* C19 witness: the main loop is at its get with one record queued while
\* both listeners are about to put another.
C19_Witness ==
    /\ pcMain = "get"
    /\ Len(qso_queue) = 1
    /\ dequeued /= <<>>
    /\ pcN1mm = "put"
    /\ pcWsjtx = "put"

\* C17: a listener queues a record only for a real QSO message: a
\* get_message that delivers no QSO (an N1MM+ 'timeout', a WSJT-X message of
\* another type) takes the listener back to its loop test with its flag and
\* the queue as they were, and a source never has more records queued than
\* QSO messages delivered.
C17_OnlyQsoMessagesQueued ==
    /\ [](/\ Len(OfSource(enqueued, "n1mm")) <= n1mm_count
          /\ Len(OfSource(enqueued, "wsjtx")) <= wsjtx_count)
    /\ [][(pcN1mm = "get_message" /\ pcN1mm' /= pcN1mm
              /\ n1mm_count' = n1mm_count /\ n1mm_running' = n1mm_running)
            => (pcN1mm' = "while" /\ UNCHANGED <<qso_queue, enqueued>>)]_vars
    /\ [][(pcWsjtx = "get_message" /\ pcWsjtx' /= pcWsjtx
              /\ wsjtx_count' = wsjtx_count /\ wsjtx_running' = wsjtx_running)
            => (pcWsjtx' = "while" /\ UNCHANGED <<qso_queue, enqueued>>)]_vars

\* C17 witness: both listeners have passed over a message that is not a QSO
\* and are back at their loop test, with records waiting on the queue.
C17_Witness ==
    /\ n1mm_late.skips = 1
    /\ wsjtx_late.skips = 1
    /\ pcN1mm = "while"
    /\ pcWsjtx = "while"
    /\ qso_queue /= <<>>

\* C20: once a listener's run flag is False the listener makes at most one
\* more get_message call and puts at most one more record before it ends,
\* and the flag of a started listener never goes from False back to True.
C20_StopsWithinOneIteration ==
    /\ [](/\ n1mm_late.gets <= 1 /\ n1mm_late.puts <= 1
          /\ wsjtx_late.gets <= 1 /\ wsjtx_late.puts <= 1)
    /\ [][(n1mmThread /\ ~n1mm_running) => ~n1mm_running']_vars
    /\ [][(wsjtxThread /\ ~wsjtx_running) => ~wsjtx_running']_vars

\* C20 witness: the main program has cleared the flags and waits in join;
\* the N1MM+ listener has since returned from one get_message call and
\* queued its record, and is back at its loop test.
C20_Witness ==
    /\ pcMain = "join_n1mm"
    /\ pcN1mm = "while"
    /\ n1mm_late.gets = 1
    /\ n1mm_late.puts = 1

\* C13: the main loop reports success exactly when upload_count is 1,
\* whatever the status flag says; for every other count it reports a failure
\* that carries the info string.
C13_SuccessIffOneDelivered ==
    (called = "upload reported") =>
        IF upload_result.upload_count = 1
        THEN console = "QSO logged"
        ELSE console = "QSO NOT logged: " \o upload_result.info

\* C13 witness: a result with count 2 and status True has been reported as
\* a failure with its info string.
C13_Witness ==
    /\ called = "upload reported"
    /\ upload_result.upload_count = 2
    /\ upload_result.status
    /\ console = "QSO NOT logged: Unable to add QSO"

\* The reference normaliser of C15.
RefBlank == {" ", "\t", "\n", "\r", "\f"}

RefMarker == << {"<"}, {"E", "e"}, {"O", "o"}, {"H", "h"}, {">"} >>

RefCollapsed(text) ==
    [i \in 1..Len(text) |-> IF text[i] \in {"\n", "\r"} THEN " " ELSE text[i]]

RefMarkerStarts(text) ==
    {i \in 1..Len(text) :
        /\ i + Len(RefMarker) - 1 <= Len(text)
        /\ \A k \in 1..Len(RefMarker) : text[i + k - 1] \in RefMarker[k]}

RefAfterMarker(text) ==
    LET starts == RefMarkerStarts(text)
        first == CHOOSE i \in starts : \A j \in starts : i <= j
    IN  IF starts = {} THEN text
        ELSE SubSeq(text, first + Len(RefMarker), Len(text))

RefTrimmed(text) ==
    LET kept == {i \in 1..Len(text) : text[i] \notin RefBlank}
        lo == CHOOSE i \in kept : \A j \in kept : i <= j
        hi == CHOOSE i \in kept : \A j \in kept : j <= i
    IN  IF kept = {} THEN <<>> ELSE SubSeq(text, lo, hi)

Normalised(text) == RefTrimmed(RefAfterMarker(RefCollapsed(text)))

\* C15: format_record returns what the reference normaliser returns: CR and
\* LF each become a space, the text up to and including the first <EOH>
\* (in any letter case) is cut off if there is one, and the rest is trimmed.
C15_FormatRecordIsNormaliser ==
    (called = "format_record returned") => adif_out = Normalised(adif_in)

\* C15 witness: a text with a lower-case marker, a letter, a line feed and
\* another letter has been turned into the two letters with a space between.
C15_Witness ==
    /\ called = "format_record returned"
    /\ adif_in = <<"<", "e", "O", "h", ">", "a", "\n", "a">>
    /\ adif_out = <<"a", " ", "a">>

\* C16: every record a listener queues, from either source, has no CR or LF
\* in it and is not empty after trimming.
C16_RecordsSingleLineNonEmpty ==
    (called \in {"format_record returned", "n1mm_message queued"}) =>
        /\ \A i \in 1..Len(adif_out) : adif_out[i] \notin {"\n", "\r"}
        /\ RefTrimmed(adif_out) /= <<>>

\* The main program is no longer in its loop: it never got there, or an
\* interrupt or an exception took it out.
LoopLeft ==
    pcMain \in {"sys_exit", "clear_n1mm", "clear_wsjtx", "join_n1mm",
                "join_wsjtx", "exiting", "done", "NameError"}

\* The k-th record put on the queue has been passed to the uploader, or, in
\* dryrun mode, taken from the queue and printed.
Handled(k) == IF dryrun THEN Len(dequeued) >= k ELSE Len(uploaded) >= k

\* C18: with every thread scheduled fairly, and unless an interrupt or an
\* exception takes the main program out of its loop, every record put on
\* the queue is in the end taken from it and passed to the uploader (printed
\* in dryrun mode), and the loop does not stay at its empty() test while
\* records are waiting.
C18_EveryRecordHandled ==
    /\ \A k \in 1..(MaxShortRunMsgs + MaxWsjtxMsgs) :
          (Len(enqueued) >= k) ~> (Handled(k) \/ LoopLeft)
    /\ (pcMain = "empty" /\ qso_queue /= <<>>) ~> (pcMain /= "empty")

\* C18 witness: every record of the run has been queued and uploaded and
\* the main loop is back at its empty() test.
C18_Witness ==
    /\ pcMain = "empty"
    /\ ~dryrun
    /\ Len(enqueued) = MaxShortRunMsgs + MaxWsjtxMsgs
    /\ uploaded = enqueued

====
